---- MODULE Spec2Model ----
(***************************************************************************)
(* A model of generate.py (gps-scribble): the track-to-summary pipeline.   *)
(*                                                                         *)
(* Conventions of the model                                                *)
(*   - A Python float is a record [nan, v]: either not-a-number or the     *)
(*     integer v.  Distances are counted in units of 1/UnitsPerMile mile,  *)
(*     so  d * MILES_PER_METER  is the float d read as v/UnitsPerMile      *)
(*     miles and  k / MILES_PER_METER  is k * UnitsPerMile units.          *)
(*   - A datetime is a record [type, val, tz]: val counts seconds.  The    *)
(*     int 0 that compute_mileposts starts previous_time with has type     *)
(*     "int"; arithmetic between the two raises TypeError as in Python.    *)
(*   - A call that may raise returns a record with an exc field: "None"    *)
(*     or the name of the exception that leaves the function.              *)
(*   - An optional value (an XML sub-element, an unbound local) is the     *)
(*     empty sequence or a one-element sequence.                           *)
(***************************************************************************)
EXTENDS Integers, Sequences, FiniteSets, TLC

VARIABLES
    mode,           \* which entry point this behaviour exercises
    datapoints,     \* compute_mileposts / compute_splits: the recorded track
    mileposts,      \* result of list(compute_mileposts(datapoints))
    splits,         \* result of list(compute_splits(trackpoints, mileposts))
    track_pc,       \* "start" | "mileposts" | "splits" | "raised"
    document,       \* parse_trackpoints: the Trackpoint elements of the document
    parsed,         \* result of list(parse_trackpoints(document))
    parse_pc,       \* "start" | "parsed" | "raised"
    data,           \* CachingGeocoder.data: key -> cached result
    calls,          \* per key, how often the underlying geocoder was invoked
    first_stored,   \* per key, the result loaded or stored first (optional)
    last_search,    \* the latest search: its key, result and whether it invoked
    searches,       \* number of search calls made
    main_pc,        \* where main is: "start", "next", a process stage, ...
    fit_paths,      \* number of activity files on the command line
    idx,            \* position in fit_paths of the activity being processed
    summaries,      \* main's list of Summary
    geocode, tz,    \* process's locals
    reports,        \* activities whose report file has been written
    index_written,  \* whether write_index has written index.html
    cache_file,     \* the entries of cache/geocodings.json on disk
    saves,          \* the cache contents written by each geocoder.save()
    processed,      \* activities whose processing has begun, in order
    stages,         \* per activity, the stages of process completed so far
    exc             \* the exception that ended main, and where

track_vars == <<datapoints, mileposts, splits, track_pc>>
parse_vars == <<document, parsed, parse_pc>>
geo_vars == <<data, calls, first_stored, last_search, searches>>
main_vars == <<main_pc, fit_paths, idx, summaries, geocode, tz, reports,
               index_written, cache_file, saves, processed, stages, exc>>
vars == <<mode, track_vars, parse_vars, geo_vars, main_vars>>

---------------------------------------------------------------------------
(* Bounds of the model *)

MaxLen == 3
MaxTime == 1
MaxDist == 6
UnitsPerMile == 2
MaxElems == 2
MaxCoord == 2
UnitsPerMicrodegree == 3
MaxSearches == 3
MaxFiles == 3

---------------------------------------------------------------------------
(* Floats *)

F(n) == [nan |-> FALSE, v |-> n]

nan == [nan |-> TRUE, v |-> 0]

FSub(a, b) == IF a.nan \/ b.nan THEN nan ELSE F(a.v - b.v)

\* a > b on floats: false whenever either side is not-a-number
FGt(a, b) == ~a.nan /\ ~b.nan /\ a.v > b.v

\* a / b on floats: Python raises ZeroDivisionError for any a when b == 0.0.
\* The quotient is kept exact, as numerator and denominator.
FDiv(a, b) ==
    IF ~b.nan /\ b.v = 0
    THEN [exc |-> "ZeroDivisionError", nan |-> FALSE, num |-> 0, den |-> 1]
    ELSE IF a.nan \/ b.nan
    THEN [exc |-> "None", nan |-> TRUE, num |-> 0, den |-> 1]
    ELSE [exc |-> "None", nan |-> FALSE, num |-> a.v, den |-> b.v]

\* n * num / den rounded to the nearest integer, ties to even (den > 0)
RoundHalfEven(n, den) ==
    LET q == n \div den
        r == n % den
    IN  IF 2 * r > den \/ (2 * r = den /\ q % 2 = 1) THEN q + 1 ELSE q

---------------------------------------------------------------------------
(* datetime and timedelta *)

datetime(t, zone) == [type |-> "datetime", val |-> t, tz |-> zone]

int0 == [type |-> "int", val |-> 0, tz |-> "naive"]

\* a - b: a timedelta in seconds; TypeError for datetime - int and for
\* mixing naive and aware datetimes
TimeSub(a, b) ==
    IF a.type # "datetime" \/ b.type # "datetime"
    THEN [exc |-> "TypeError", seconds |-> 0]
    ELSE IF (a.tz = "naive") # (b.tz = "naive")
    THEN [exc |-> "TypeError", seconds |-> 0]
    ELSE [exc |-> "None", seconds |-> a.val - b.val]

\* t + delta * fraction: timedelta * float raises ValueError for a NaN float
\* and rounds to the timedelta resolution otherwise
TimeAddScaled(t, delta, fraction) ==
    IF fraction.nan
    THEN [exc |-> "ValueError", time |-> t]
    ELSE [exc |-> "None",
          time |-> [t EXCEPT !.val = @ + RoundHalfEven(delta * fraction.num, fraction.den)]]

---------------------------------------------------------------------------
(* Trackpoint, Split *)

Trackpoint(time, altitude_meters, distance_meters, latitude_degrees, longitude_degrees) ==
    [time |-> time, altitude_meters |-> altitude_meters,
     distance_meters |-> distance_meters,
     latitude_degrees |-> latitude_degrees,
     longitude_degrees |-> longitude_degrees]

Split(start, end, duration, meters, speed) ==
    [start |-> start, end |-> end, duration |-> duration, meters |-> meters,
     mph |-> speed]

\* a + (b - a) * fraction on floats, the result taken to the model's grid
interpolate(a, b, fraction) ==
    IF a.nan \/ b.nan \/ fraction.nan THEN nan
    ELSE F(a.v + ((b.v - a.v) * fraction.num) \div fraction.den)

\* d.distance_meters * MILES_PER_METER
Miles(d) == d.distance_meters

---------------------------------------------------------------------------
(* compute_mileposts *)

\* the locals at the top of compute_mileposts; previous_point is unbound
MilepostsStart ==
    [exc |-> "None", at |-> 0, out |-> <<>>, next_mile |-> 1,
     previous_time |-> int0, previous_miles |-> F(0), previous_point |-> <<>>]

\* one pass of the body of "while miles > next_mile"
MilepostBody(point, miles, st) ==
    LET fraction == FDiv(FSub(F(st.next_mile * UnitsPerMile), st.previous_miles),
                         FSub(miles, st.previous_miles))
        delta == TimeSub(point.time, st.previous_time)
        time == TimeAddScaled(st.previous_time, delta.seconds, fraction)
    IN  IF fraction.exc # "None" THEN [st EXCEPT !.exc = fraction.exc]
        ELSE IF delta.exc # "None" THEN [st EXCEPT !.exc = delta.exc]
        ELSE IF time.exc # "None" THEN [st EXCEPT !.exc = time.exc]
        ELSE IF st.previous_point = <<>> THEN [st EXCEPT !.exc = "UnboundLocalError"]
        ELSE LET previous_point == st.previous_point[1]
             IN  [st EXCEPT
                    !.out = Append(@, Trackpoint(
                        time.time,
                        interpolate(previous_point.altitude_meters,
                                    point.altitude_meters, fraction),
                        F(st.next_mile * UnitsPerMile),
                        interpolate(previous_point.latitude_degrees,
                                    point.latitude_degrees, fraction),
                        interpolate(previous_point.longitude_degrees,
                                    point.longitude_degrees, fraction))),
                    !.next_mile = @ + 1]

\* a plausible slip: the boundary itself counts as passed
MilepostsCond_atleast(miles, next_mile) ==
    FGt(miles, F(next_mile * UnitsPerMile)) \/ miles = F(next_mile * UnitsPerMile)

\* the loop condition "miles > next_mile"
MilepostsCond(miles, next_mile) == FGt(miles, F(next_mile * UnitsPerMile))

RECURSIVE MilepostsWhile(_, _, _)
MilepostsWhile(point, miles, st) ==
    IF st.exc # "None" \/ ~MilepostsCond(miles, st.next_mile) THEN st
    ELSE MilepostsWhile(point, miles, MilepostBody(point, miles, st))

\* the body of "for point in datapoints"
MilepostsPoint(point, st) ==
    LET miles == Miles(point)
        after == MilepostsWhile(point, miles, st)
    IN  IF after.exc # "None" THEN after
        ELSE [after EXCEPT !.previous_time = point.time,
                           !.previous_miles = miles,
                           !.previous_point = <<point>>]

RECURSIVE MilepostsFor(_, _, _)
MilepostsFor(points, i, st) ==
    IF i > Len(points) \/ st.exc # "None" THEN st
    ELSE MilepostsFor(points, i + 1, MilepostsPoint(points[i], [st EXCEPT !.at = i]))

\* list(compute_mileposts(datapoints)): the mileposts yielded, the exception,
\* if any, that ended the generator, and the index of the sample it was at
compute_mileposts(points) ==
    LET st == MilepostsFor(points, 1, MilepostsStart)
    IN  [exc |-> st.exc, at |-> st.at, out |-> st.out]

---------------------------------------------------------------------------
(* mph and compute_splits *)

SecondsPerHour == 3600

\* meters * MILES_PER_METER / duration.total_seconds() * 60 * 60, in
\* 1/UnitsPerMile miles per hour
MphQuotient(meters, duration) ==
    LET q == FDiv(meters, F(duration))
    IN  IF q.exc # "None" THEN [exc |-> q.exc, value |-> nan]
        ELSE IF q.nan THEN [exc |-> "None", value |-> nan]
        ELSE [exc |-> "None",
              value |-> F((q.num * SecondsPerHour) \div q.den)]

\* a plausible slip: the division without the try/except around it
mph_uncaught(meters, duration) == MphQuotient(meters, duration)

\* try: ... except ZeroDivisionError: return 0.0
mph(meters, duration) ==
    LET r == MphQuotient(meters, duration)
    IN  IF r.exc = "ZeroDivisionError" THEN [exc |-> "None", value |-> F(0)]
        ELSE r

\* a plausible slip: "previous = milepost" left out
SplitBody_stale(milepost, st) ==
    LET meters == FSub(milepost.distance_meters, st.previous.distance_meters)
        duration == TimeSub(milepost.time, st.previous.time)
        speed == mph(meters, duration.seconds)
    IN  [st EXCEPT
            !.out = Append(@, Split(st.previous.time, milepost.time,
                                    duration.seconds, meters, speed.value))]

\* one pass of the body of "for milepost in mileposts + [trackpoints[-1]]"
SplitBody(milepost, st) ==
    LET meters == FSub(milepost.distance_meters, st.previous.distance_meters)
        duration == TimeSub(milepost.time, st.previous.time)
        speed == mph(meters, duration.seconds)
    IN  IF duration.exc # "None" THEN [st EXCEPT !.exc = duration.exc]
        ELSE IF speed.exc # "None" THEN [st EXCEPT !.exc = speed.exc]
        ELSE [st EXCEPT
                !.out = Append(@, Split(st.previous.time, milepost.time,
                                        duration.seconds, meters, speed.value)),
                !.previous = milepost]

RECURSIVE SplitsFor(_, _, _)
SplitsFor(boundaries, i, st) ==
    IF i > Len(boundaries) \/ st.exc # "None" THEN st
    ELSE SplitsFor(boundaries, i + 1, SplitBody(boundaries[i], st))

\* list(compute_splits(trackpoints, mileposts)), trackpoints not empty
compute_splits(trackpoints, posts) ==
    LET st == SplitsFor(posts \o <<trackpoints[Len(trackpoints)]>>, 1,
                        [exc |-> "None", out |-> <<>>, previous |-> trackpoints[1]])
    IN  [exc |-> st.exc, at |-> 0, out |-> st.out]

---------------------------------------------------------------------------
(* parse_trackpoints, date_of, float_of *)

\* An element is a record of its optional sub-elements Time, AltitudeMeters,
\* DistanceMeters and Position.  The text of a Time is [iso |-> t], the
\* timestamp in the pattern ISO that denotes second t; the text of a number
\* is [text |-> n]; a Position holds LatitudeDegrees and LongitudeDegrees.

\* '2019-11-11T01:02:03Z', as a second of the model's clock
SentinelTime == 0

find(parent, name) == parent[name]

\* dt.datetime.strptime(s, ISO): a naive datetime
strptime(s) == datetime(s.iso, "naive")

\* float(element.text)
float(text) == F(text.text)

\* "s = e.text" names e, which is not defined: NameError
date_of(parent, name) ==
    LET element == find(parent, name)
    IN  IF element = <<>>
        THEN [exc |-> "None", value |-> strptime([iso |-> SentinelTime])]
        ELSE [exc |-> "NameError", value |-> int0]

float_of(parent, name) ==
    LET element == find(parent, name)
    IN  IF element = <<>> THEN nan ELSE float(element[1])

\* the body of "for t in elements": the keyword arguments of Trackpoint are
\* evaluated in order, so date_of raises before p.find does
ParseElement(t, st) ==
    LET p == find(t, "Position")
        a == find(t, "AltitudeMeters")
        time == date_of(t, "Time")
    IN  IF a = <<>> THEN st
        ELSE IF time.exc # "None" THEN [st EXCEPT !.exc = time.exc]
        ELSE IF p = <<>> THEN [st EXCEPT !.exc = "AttributeError"]
        ELSE [st EXCEPT !.out = Append(@, Trackpoint(
                 time.value,
                 float(find(t, "AltitudeMeters")[1]),
                 float_of(t, "DistanceMeters"),
                 float(find(p[1], "LatitudeDegrees")),
                 float(find(p[1], "LongitudeDegrees"))))]

RECURSIVE ParseFor(_, _, _)
ParseFor(elements, i, st) ==
    IF i > Len(elements) \/ st.exc # "None" THEN st
    ELSE ParseFor(elements, i + 1, ParseElement(elements[i], [st EXCEPT !.at = i]))

\* list(parse_trackpoints(x)) over the document's Trackpoint elements
parse_trackpoints(elements) ==
    ParseFor(elements, 1, [exc |-> "None", at |-> 0, out |-> <<>>])

---------------------------------------------------------------------------
(* CachingGeocoder *)

Abs(x) == IF x < 0 THEN 0 - x ELSE x

\* '%.6f' % x for a coordinate of x / UnitsPerMicrodegree millionths of a
\* degree: the sign, and the magnitude rounded to whole millionths (a
\* negative value that rounds to zero prints as '-0.000000')
Fmt6(x) == [neg |-> x < 0, micro |-> RoundHalfEven(Abs(x), UnitsPerMicrodegree)]

\* '%.6f %.6f' % (lat, lon)
Key(lat, lon) == <<Fmt6(lat), Fmt6(lon)>>

\* self.data.get(key): None (the empty optional) when the key is absent
Get(d, key) == IF key \in DOMAIN d THEN <<d[key]>> ELSE <<>>

Put(d, key, value) == [k \in DOMAIN d \cup {key} |-> IF k = key THEN value ELSE d[k]]

\* a plausible slip: the result is returned but not stored
search_unstored(self, lat, lon, underlying) ==
    LET key == Key(lat, lon)
        result == Get(self, key)
    IN  IF result # <<>>
        THEN [result |-> result[1], data |-> self, invoked |-> FALSE]
        ELSE [result |-> underlying, data |-> self, invoked |-> TRUE]

\* CachingGeocoder.search on cache contents self; underlying is what
\* reverse_geocoder.search would return now (a list, never None)
search(self, lat, lon, underlying) ==
    LET key == Key(lat, lon)
        result == Get(self, key)
    IN  IF result # <<>>
        THEN [result |-> result[1], data |-> self, invoked |-> FALSE]
        ELSE [result |-> underlying, data |-> Put(self, key, underlying),
              invoked |-> TRUE]

---------------------------------------------------------------------------
(* The track specification: the two generators applied to a recorded track *)

Times == 0 .. MaxTime

Distances == {nan} \cup {F(d) : d \in 0 .. MaxDist}

Altitude == F(3)
Latitude == F(1)
Longitude == F(2)

Trackpoints ==
    {Trackpoint(datetime(t, "local"), Altitude, d, Latitude, Longitude) :
        t \in Times, d \in Distances}

SeqsUpTo(S, n) == UNION {[1 .. k -> S] : k \in 0 .. n}

ParseIdle == document = <<>> /\ parsed = [exc |-> "None", at |-> 0, out |-> <<>>] /\ parse_pc = "idle"

TrackIdle ==
    /\ datapoints = <<>>
    /\ mileposts = [exc |-> "None", at |-> 0, out |-> <<>>]
    /\ splits = [exc |-> "None", at |-> 0, out |-> <<>>]
    /\ track_pc = "idle"

EmptyDict == [k \in {} |-> <<>>]

GeoIdle ==
    /\ data = EmptyDict
    /\ calls = EmptyDict
    /\ first_stored = EmptyDict
    /\ last_search = <<>>
    /\ searches = 0

MainIdle ==
    /\ main_pc = "idle"
    /\ fit_paths = 0
    /\ idx = 0
    /\ summaries = <<>>
    /\ geocode = <<>>
    /\ tz = <<>>
    /\ reports = {}
    /\ index_written = FALSE
    /\ cache_file = EmptyDict
    /\ saves = <<>>
    /\ processed = <<>>
    /\ stages = <<>>
    /\ exc = <<>>

NoResult == [exc |-> "None", at |-> 0, out |-> <<>>]

TrackInit ==
    /\ mode = "track"
    /\ datapoints \in SeqsUpTo(Trackpoints, MaxLen)
    /\ mileposts = NoResult
    /\ splits = NoResult
    /\ track_pc = "start"
    /\ ParseIdle /\ GeoIdle /\ MainIdle

\* process, line 110: mileposts = list(compute_mileposts(trackpoints))
RunComputeMileposts ==
    /\ mode = "track"
    /\ track_pc = "start"
    /\ mileposts' = compute_mileposts(datapoints)
    /\ track_pc' = IF mileposts'.exc = "None" THEN "mileposts" ELSE "raised"
    /\ UNCHANGED <<mode, datapoints, splits, parse_vars, geo_vars, main_vars>>

\* process, line 139: splits = list(compute_splits(trackpoints, mileposts))
RunComputeSplits ==
    /\ mode = "track"
    /\ track_pc = "mileposts"
    /\ datapoints # <<>>
    /\ splits' = compute_splits(datapoints, mileposts.out)
    /\ track_pc' = IF splits'.exc = "None" THEN "splits" ELSE "raised"
    /\ UNCHANGED <<mode, datapoints, mileposts, parse_vars, geo_vars, main_vars>>

TrackNext == RunComputeMileposts \/ RunComputeSplits

SpecTrack == TrackInit /\ [][TrackNext]_vars

---------------------------------------------------------------------------
(* The parser specification: parse_trackpoints applied to a document *)


TimeTexts == {[iso |-> t] : t \in Times}

DistanceTexts == {[text |-> 2], [text |-> 5]}

Optional(S) == {<<>>} \cup {<<x>> : x \in S}

Elements ==
    [Time : Optional(TimeTexts),
     AltitudeMeters : Optional({[text |-> 3]}),
     DistanceMeters : Optional(DistanceTexts),
     Position : Optional({[LatitudeDegrees |-> [text |-> 1],
                           LongitudeDegrees |-> [text |-> 2]]})]

ParseInit ==
    /\ mode = "parse"
    /\ document \in SeqsUpTo(Elements, MaxElems)
    /\ parsed = NoResult
    /\ parse_pc = "start"
    /\ TrackIdle /\ GeoIdle /\ MainIdle

\* process, line 92: trackpoints = list(parse_trackpoints(x))
RunParseTrackpoints ==
    /\ mode = "parse"
    /\ parse_pc = "start"
    /\ parsed' = parse_trackpoints(document)
    /\ parse_pc' = IF parsed'.exc = "None" THEN "parsed" ELSE "raised"
    /\ UNCHANGED <<mode, document, track_vars, geo_vars, main_vars>>

ParseNext == RunParseTrackpoints

SpecParse == ParseInit /\ [][ParseNext]_vars

---------------------------------------------------------------------------
(* Properties of the parser specification *)

ParseRan == mode = "parse" /\ parse_pc # "start"

HasAltitude(t) == find(t, "AltitudeMeters") # <<>>

\* the sample elements the parser is to keep, in document order
Kept(elements) == SelectSeq(elements, HasAltitude)

\* C4: the time of every kept sample is the value parsed from its Time
\* sub-element when that is present and the sentinel when it is absent, and
\* reading the time never fails.
C4_TimeOrSentinel ==
    ParseRan =>
        /\ parsed.exc # "NameError"
        /\ \A j \in 1 .. Len(parsed.out) :
              parsed.out[j].time =
                  IF find(Kept(document)[j], "Time") = <<>>
                  THEN datetime(SentinelTime, "naive")
                  ELSE strptime(find(Kept(document)[j], "Time")[1])

\* C8: parse_trackpoints yields exactly the elements that have an altitude,
\* in document order; an element without altitude is skipped, and one with
\* altitude but no position makes the parse fail instead.
C8_YieldsKeptInOrder ==
    ParseRan =>
        IF \E i \in 1 .. Len(document) :
               HasAltitude(document[i]) /\ find(document[i], "Position") = <<>>
        THEN parsed.exc # "None"
        ELSE /\ parsed.exc = "None"
             /\ Len(parsed.out) = Len(Kept(document))
             /\ \A j \in 1 .. Len(parsed.out) :
                   LET t == Kept(document)[j]
                   IN  /\ parsed.out[j].altitude_meters = float(find(t, "AltitudeMeters")[1])
                       /\ parsed.out[j].distance_meters = float_of(t, "DistanceMeters")
                       /\ parsed.out[j].latitude_degrees =
                              float(find(find(t, "Position")[1], "LatitudeDegrees"))

---------------------------------------------------------------------------
(* Properties of the track specification *)

MilepostsRan == mode = "track" /\ track_pc # "start"

IsNumber(x) == ~x.nan

StrictlyIncreasing(points) ==
    /\ \A i \in 1 .. Len(points) : IsNumber(points[i].distance_meters)
    /\ \A i \in 2 .. Len(points) :
          points[i].distance_meters.v > points[i - 1].distance_meters.v

\* floor(last_mile) of a track that ends at a numeric distance
FloorLastMile(points) == points[Len(points)].distance_meters.v \div UnitsPerMile

MilesBelowLast(points) ==
    {k \in 1 .. MaxDist : k * UnitsPerMile < points[Len(points)].distance_meters.v}

C2_FirstSampleBeyondMileOne ==
    (/\ MilepostsRan
     /\ datapoints # <<>>
     /\ FGt(Miles(datapoints[1]), F(UnitsPerMile))) =>
        /\ ~(mileposts.exc # "None" /\ mileposts.at = 1)
        /\ Len(mileposts.out) >= 1

RECURSIVE SumDuration(_, _)
SumDuration(s, i) == IF i > Len(s) THEN 0 ELSE s[i].duration + SumDuration(s, i + 1)

\* the float sum of the Splits' meters; s is not empty
RECURSIVE SumMeters(_, _)
SumMeters(s, i) ==
    IF i = Len(s) THEN s[i].meters
    ELSE LET rest == SumMeters(s, i + 1)
         IN  IF s[i].meters.nan \/ rest.nan THEN nan
             ELSE F(s[i].meters.v + rest.v)

\* C3: the Splits of a non-empty track tile it: the first starts at the first
\* trackpoint, each starts where the previous one ends, the last ends at the
\* last trackpoint; their meters sum to last.distance - first.distance and
\* their durations to last.time - first.time.  (Floats are exact here, and
\* two not-a-number sums count as the same value.)
C3_SplitsTileTrack ==
    (mode = "track" /\ track_pc = "splits") =>
        LET s == splits.out
            n == Len(s)
            first == datapoints[1]
            last == datapoints[Len(datapoints)]
        IN  /\ splits.exc = "None"
            /\ n = Len(mileposts.out) + 1
            /\ s[1].start = first.time
            /\ \A i \in 2 .. n : s[i].start = s[i - 1].end
            /\ s[n].end = last.time
            /\ \A i \in 1 .. n : s[i].duration = s[i].end.val - s[i].start.val
            /\ SumDuration(s, 1) = last.time.val - first.time.val
            /\ SumMeters(s, 1) = FSub(last.distance_meters, first.distance_meters)

C3_Witness ==
    /\ mode = "track" /\ track_pc = "splits"
    /\ Len(splits.out) >= 3
    /\ datapoints[1].time # datapoints[Len(datapoints)].time
    /\ IsNumber(datapoints[1].distance_meters)
    /\ datapoints[1].distance_meters.v > 0

\* C5: a sample without a distance is tolerated: no milepost is emitted at it
\* and no error is raised, neither at that sample nor at a later sample whose
\* interpolation uses it as the previous point.
C5_NanDistanceTolerated ==
    MilepostsRan =>
        \A i \in 1 .. Len(datapoints) :
            datapoints[i].distance_meters.nan =>
                /\ ~(mileposts.exc # "None" /\ mileposts.at \in {i, i + 1})
                /\ MilepostsPoint(datapoints[i], MilepostsStart).out = <<>>

\* C7: mph is 0.0, and raises nothing, whenever the duration is zero seconds,
\* whatever the meters; so a Split between two boundaries with equal
\* timestamps has mph 0.0.
C7_ZeroDurationMph ==
    /\ \A m \in Distances \cup {F(0 - d) : d \in 1 .. MaxDist} :
          mph(m, 0) = [exc |-> "None", value |-> F(0)]
    /\ (mode = "track" /\ mileposts.exc = "None" /\ track_pc \in {"splits", "raised"}) =>
          /\ splits.exc = "None"
          /\ \A i \in 1 .. Len(splits.out) :
                splits.out[i].duration = 0 => splits.out[i].mph = F(0)

C7_Witness ==
    /\ mode = "track" /\ track_pc = "splits"
    /\ \E i \in 1 .. Len(splits.out) :
          /\ splits.out[i].duration = 0
          /\ splits.out[i].meters.nan
    /\ \E i \in 1 .. Len(splits.out) :
          /\ splits.out[i].duration = 0
          /\ IsNumber(splits.out[i].meters)
          /\ splits.out[i].meters.v > 0

---------------------------------------------------------------------------
(* The geocoder specification: a sequence of CachingGeocoder.search calls *)

Coordinates == (0 - MaxCoord) .. MaxCoord

\* what reverse_geocoder.search returns: a list of one place
Results == {<<[name |-> "Oslo"]>>, <<[name |-> "Bergen"]>>}

\* the longitudes searched: one to either side of the meridian
Meridian == {0 - 1, 1}

Keys == {Key(lat, lon) : lat \in Coordinates, lon \in Meridian}

\* __init__: the cache file is missing, or holds entries of an earlier run
Loaded == {EmptyDict} \cup {[k \in {key} |-> r] : key \in Keys, r \in Results}

GeoInit ==
    /\ mode = "geocoder"
    /\ data \in Loaded
    /\ calls = [k \in Keys |-> 0]
    /\ first_stored = [k \in Keys |-> Get(data, k)]
    /\ last_search = <<>>
    /\ searches = 0
    /\ TrackIdle /\ ParseIdle /\ MainIdle

Search ==
    /\ mode = "geocoder"
    /\ searches < MaxSearches
    /\ \E lat \in Coordinates, lon \in Meridian, underlying \in Results :
          LET r == search(data, lat, lon, underlying)
              key == Key(lat, lon)
          IN  /\ data' = r.data
              /\ calls' = [calls EXCEPT ![key] = @ + (IF r.invoked THEN 1 ELSE 0)]
              /\ first_stored' =
                    IF first_stored[key] = <<>>
                    THEN [first_stored EXCEPT ![key] = Get(r.data, key)]
                    ELSE first_stored
              /\ last_search' = <<[key |-> key, result |-> r.result, invoked |-> r.invoked,
                            again |-> first_stored[key] # <<>> \/ calls[key] > 0]>>
    /\ searches' = searches + 1
    /\ UNCHANGED <<mode, track_vars, parse_vars, main_vars>>

GeoNext == Search

SpecGeocoder == GeoInit /\ [][GeoNext]_vars

\* C6: the underlying geocoder is invoked at most once per distinct key; a
\* later search with the same key does not invoke it and returns the result
\* the first call stored.
C6_OncePerKey ==
    mode = "geocoder" =>
        /\ \A k \in Keys : calls[k] <= 1
        /\ last_search # <<>> =>
              /\ first_stored[last_search[1].key] = <<last_search[1].result>>
              /\ last_search[1].again => ~last_search[1].invoked

\* a repeated search for a key whose first search invoked the geocoder, with
\* two keys looked up so far
C6_Witness ==
    /\ mode = "geocoder"
    /\ last_search # <<>>
    /\ last_search[1].again
    /\ calls[last_search[1].key] = 1
    /\ Cardinality({k \in Keys : calls[k] = 1}) >= 2

---------------------------------------------------------------------------
(* The main specification: main over the activity files of the command line *)

Summary(place, start, miles, url) ==
    [geocode |-> place, start |-> start, miles |-> miles, url |-> url]

\* the elements an activity document may hold
ActivityElements ==
    [Time : Optional({[iso |-> 1]}),
     AltitudeMeters : Optional({[text |-> 3]}),
     DistanceMeters : Optional(DistanceTexts),
     Position : Optional({[LatitudeDegrees |-> [text |-> 1],
                           LongitudeDegrees |-> [text |-> 2]]})]

\* what open(xml_path).read() may hold: text etree.fromstring rejects, or a
\* document with some Trackpoint elements
Documents ==
    {[wellformed |-> FALSE, elements |-> <<>>]} \cup
    {[wellformed |-> TRUE, elements |-> e] : e \in SeqsUpTo(ActivityElements, MaxElems)}

\* what TimezoneFinder.timezone_at may return: a zone name or None
ZoneNames == Optional({"Europe/Oslo"})

\* what the reverse geocoder returns in a run
Places == {<<[name |-> "Oslo"]>>}

Init ==
    /\ mode = "main"
    /\ main_pc = "start"
    /\ fit_paths \in 0 .. MaxFiles
    /\ idx = 0
    /\ summaries = <<>>
    /\ geocode = <<>>
    /\ tz = <<>>
    /\ reports = {}
    /\ index_written = FALSE
    /\ cache_file \in {EmptyDict, [k \in {Key(1, 2)} |-> <<[name |-> "Bergen"]>>]}
    /\ saves = <<>>
    /\ processed = <<>>
    /\ stages = [a \in 1 .. fit_paths |-> <<>>]
    /\ exc = <<>>
    /\ data = EmptyDict
    /\ calls = EmptyDict /\ first_stored = EmptyDict /\ last_search = <<>> /\ searches = 0
    /\ TrackIdle /\ ParseIdle

geo_history == <<calls, first_stored, last_search, searches>>

\* a plausible slip: the loop of main catches the exception and goes on to
\* the next activity
Raise_continue(e, where) ==
    /\ main_pc' = "next"
    /\ exc' = <<[type |-> e, activity |-> idx, stage |-> where]>>

\* an exception leaves process and main: nothing in main catches it
Raise(e, where) ==
    /\ main_pc' = "raised"
    /\ exc' = <<[type |-> e, activity |-> idx, stage |-> where]>>

Completed(stage) == stages' = [stages EXCEPT ![idx] = Append(@, stage)]

\* main, lines 21-34, and CachingGeocoder.__init__: the template is read and
\* the cache file loaded (a missing file gives the empty cache)
MainStart ==
    /\ mode = "main" /\ main_pc = "start"
    /\ data' = cache_file
    /\ main_pc' = "next"
    /\ UNCHANGED <<mode, track_vars, parse_vars, geo_history, fit_paths, idx,
                   summaries, geocode, tz, reports, index_written, cache_file,
                   saves, processed, stages, exc>>

\* main, lines 36-41: the next path; convert_to_xml runs when the XML is not
\* in the cache directory, and raises when the converter cannot be started
MainNextFile ==
    /\ mode = "main" /\ main_pc = "next"
    /\ idx < fit_paths
    /\ idx' = idx + 1
    /\ \/ /\ main_pc' = "parse"
          /\ processed' = Append(processed, idx + 1)
          /\ exc' = exc
       \/ /\ main_pc' = "raised"
          /\ exc' = <<[type |-> "FileNotFoundError", activity |-> idx + 1,
                       stage |-> "convert"]>>
          /\ processed' = processed
    /\ UNCHANGED <<mode, track_vars, parse_vars, geo_vars, fit_paths, summaries,
                   geocode, tz, reports, index_written, cache_file, saves, stages>>

\* on ParseError or an exception of parse_trackpoints, go on with what was
\* yielded: a plausible slip (a try/except around the parse)
ProcessParse_swallow ==
    /\ mode = "main" /\ main_pc = "parse"
    /\ \E xml \in Documents :
          /\ document' = xml.elements
          /\ IF ~xml.wellformed
             THEN /\ datapoints' = <<>>
                  /\ main_pc' = "geocode" /\ UNCHANGED <<exc, stages>>
             ELSE LET r == parse_trackpoints(xml.elements)
                  IN  /\ datapoints' = r.out
                      /\ main_pc' = "geocode" /\ exc' = exc
                      /\ IF r.exc = "None" THEN Completed("parse")
                         ELSE UNCHANGED stages
    /\ UNCHANGED <<mode, mileposts, splits, track_pc, parsed, parse_pc, geo_vars,
                   fit_paths, idx, summaries, geocode, tz, reports,
                   index_written, cache_file, saves, processed>>

\* process, lines 78-92: read and parse the document, list the trackpoints
ProcessParse ==
    /\ mode = "main" /\ main_pc = "parse"
    /\ \E xml \in Documents :
          /\ document' = xml.elements
          /\ IF ~xml.wellformed
             THEN /\ datapoints' = <<>>
                  /\ Raise("ParseError", "parse") /\ UNCHANGED stages
             ELSE LET r == parse_trackpoints(xml.elements)
                  IN  IF r.exc # "None"
                      THEN /\ datapoints' = <<>>
                           /\ Raise(r.exc, "parse") /\ UNCHANGED stages
                      ELSE /\ datapoints' = r.out
                           /\ main_pc' = "geocode" /\ exc' = exc
                           /\ Completed("parse")
    /\ UNCHANGED <<mode, mileposts, splits, track_pc, parsed, parse_pc, geo_vars,
                   fit_paths, idx, summaries, geocode, tz, reports,
                   index_written, cache_file, saves, processed>>

\* process, lines 94-98: the first trackpoint's coordinate is geocoded
ProcessGeocode ==
    /\ mode = "main" /\ main_pc = "geocode"
    /\ IF datapoints = <<>>
       THEN /\ Raise("IndexError", "geocode")
            /\ UNCHANGED <<data, geocode, stages>>
       ELSE \E underlying \in Places :
               LET geocodes == search(data, datapoints[1].latitude_degrees.v,
                                      datapoints[1].longitude_degrees.v, underlying)
               IN  /\ data' = geocodes.data
                   /\ geocode' = <<geocodes.result[1]>>
                   /\ main_pc' = "timezone" /\ exc' = exc
                   /\ Completed("geocode")
    /\ UNCHANGED <<mode, track_vars, parse_vars, geo_history, fit_paths, idx,
                   summaries, tz, reports, index_written, cache_file, saves, processed>>

\* process, lines 100-105: the zone of the start coordinate; pytz.timezone
\* raises when timezone_at found none
ProcessTimezone ==
    /\ mode = "main" /\ main_pc = "timezone"
    /\ \E name \in ZoneNames :
          IF name = <<>>
          THEN /\ Raise("UnknownTimeZoneError", "timezone")
               /\ UNCHANGED <<tz, stages>>
          ELSE /\ tz' = name
               /\ main_pc' = "localize" /\ exc' = exc
               /\ Completed("timezone")
    /\ UNCHANGED <<mode, track_vars, parse_vars, geo_vars, fit_paths, idx,
                   summaries, geocode, reports, index_written, cache_file, saves, processed>>

\* utc.localize(t).astimezone(zone): the same instant, read in the zone
astimezone(t, zone) == [t EXCEPT !.tz = zone]

\* process, lines 106-107: every trackpoint's time is rewritten in place
ProcessLocalize ==
    /\ mode = "main" /\ main_pc = "localize"
    /\ datapoints' = [i \in 1 .. Len(datapoints) |->
                         [datapoints[i] EXCEPT !.time = astimezone(@, tz[1])]]
    /\ main_pc' = "mileposts"
    /\ Completed("localize")
    /\ UNCHANGED <<mode, mileposts, splits, track_pc, parse_vars, geo_vars,
                   fit_paths, idx, summaries, geocode, tz, reports,
                   index_written, cache_file, saves, processed, exc>>

\* process, lines 109-110: the route and the mileposts
ProcessMileposts ==
    /\ mode = "main" /\ main_pc = "mileposts"
    /\ mileposts' = compute_mileposts(datapoints)
    /\ IF mileposts'.exc # "None"
       THEN Raise(mileposts'.exc, "mileposts") /\ UNCHANGED stages
       ELSE main_pc' = "splits" /\ exc' = exc /\ Completed("mileposts")
    /\ UNCHANGED <<mode, datapoints, splits, track_pc, parse_vars, geo_vars,
                   fit_paths, idx, summaries, geocode, tz, reports,
                   index_written, cache_file, saves, processed>>

\* process, lines 112-139: the icons and the splits
ProcessSplits ==
    /\ mode = "main" /\ main_pc = "splits"
    /\ splits' = compute_splits(datapoints, mileposts.out)
    /\ IF splits'.exc # "None"
       THEN Raise(splits'.exc, "splits") /\ UNCHANGED stages
       ELSE main_pc' = "write" /\ exc' = exc /\ Completed("splits")
    /\ UNCHANGED <<mode, datapoints, mileposts, track_pc, parse_vars, geo_vars,
                   fit_paths, idx, summaries, geocode, tz, reports,
                   index_written, cache_file, saves, processed>>

\* process, lines 141-160: the totals, the rendering, the report file
ProcessWrite ==
    /\ mode = "main" /\ main_pc = "write"
    /\ LET duration == TimeSub(datapoints[Len(datapoints)].time, datapoints[1].time)
           speed == mph(datapoints[Len(datapoints)].distance_meters, duration.seconds)
       IN  IF duration.exc # "None" THEN Raise(duration.exc, "write") /\ reports' = reports
           ELSE IF speed.exc # "None" THEN Raise(speed.exc, "write") /\ reports' = reports
           ELSE /\ reports' = reports \cup {idx}
                /\ main_pc' = "return" /\ exc' = exc
    /\ UNCHANGED <<mode, track_vars, parse_vars, geo_vars, fit_paths, idx,
                   summaries, geocode, tz, index_written, cache_file, saves, processed, stages>>

\* process, lines 162-169, and main, line 43: the Summary is returned and
\* kept; the locals of process are gone
ProcessReturn ==
    /\ mode = "main" /\ main_pc = "return"
    /\ summaries' = Append(summaries,
                           Summary(geocode[1], datapoints[1].time,
                                   Miles(datapoints[Len(datapoints)]), idx))
    /\ main_pc' = "next"
    /\ document' = <<>> /\ datapoints' = <<>>
    /\ mileposts' = NoResult /\ splits' = NoResult
    /\ geocode' = <<>> /\ tz' = <<>>
    /\ UNCHANGED <<mode, track_pc, parsed, parse_pc, geo_vars, fit_paths, idx,
                   reports, index_written, cache_file, saves, processed, stages, exc>>

\* main, line 45: write_index, which raises when index.template.html is missing
MainWriteIndex ==
    /\ mode = "main" /\ main_pc = "next"
    /\ idx = fit_paths
    /\ \/ /\ index_written' = TRUE
          /\ main_pc' = "save"
          /\ exc' = exc
       \/ /\ index_written' = index_written
          /\ main_pc' = "raised"
          /\ exc' = <<[type |-> "FileNotFoundError", activity |-> 0, stage |-> "index"]>>
    /\ UNCHANGED <<mode, track_vars, parse_vars, geo_vars, fit_paths, idx,
                   summaries, geocode, tz, reports, cache_file, saves, processed, stages>>

\* main, line 46, and CachingGeocoder.save: the cache is written out
MainSave ==
    /\ mode = "main" /\ main_pc = "save"
    /\ saves' = Append(saves, data)
    /\ cache_file' = data
    /\ main_pc' = "done"
    /\ UNCHANGED <<mode, track_vars, parse_vars, geo_vars, fit_paths, idx,
                   summaries, geocode, tz, reports, index_written, processed,
                   stages, exc>>

Next ==
    \/ MainStart
    \/ MainNextFile
    \/ ProcessParse
    \/ ProcessGeocode
    \/ ProcessTimezone
    \/ ProcessLocalize
    \/ ProcessMileposts
    \/ ProcessSplits
    \/ ProcessWrite
    \/ ProcessReturn
    \/ MainWriteIndex
    \/ MainSave

Spec == Init /\ [][Next]_vars

---------------------------------------------------------------------------
(* Properties of the main specification *)

\* the stages of process that precede the rendering of the report
AllStages == <<"parse", "geocode", "timezone", "localize", "mileposts", "splits">>

\* the latest exception came out of process, for activity a
FailedInProcess(a) ==
    /\ exc # <<>>
    /\ exc[1].activity = a
    /\ exc[1].stage \notin {"convert", "index"}

\* C9: an activity's report is written, and its Summary returned, only after
\* parsing, geocoding, timezone resolution, the rewrite of every trackpoint's
\* time, milepost synthesis and split computation have all completed; when
\* one of them fails, no report is written and no Summary constructed for it.
C9_ReportAfterAllStages ==
    mode = "main" =>
        /\ \A a \in reports : stages[a] = AllStages
        /\ \A a \in 1 .. Len(summaries) : summaries[a].url \in reports
        /\ main_pc = "return" =>
              \A i \in 1 .. Len(datapoints) : datapoints[i].time.tz = tz[1]
        /\ \A a \in 1 .. fit_paths :
              FailedInProcess(a) =>
                  /\ a \notin reports
                  /\ \A j \in 1 .. Len(summaries) : summaries[j].url # a

\* the second activity fails in milepost synthesis after the first one's
\* report was written
C9_Witness ==
    /\ mode = "main"
    /\ FailedInProcess(2)
    /\ exc[1].stage = "mileposts"
    /\ reports = {1}
    /\ Len(summaries) = 1

\* C10: activities are processed one at a time in argument order; the cache
\* is saved exactly once, after every activity was processed and the index
\* written; when processing an activity fails the run stops there: no later
\* activity is processed, no index written, the cache never saved, and the
\* reports of the earlier activities remain.
C10_RunOrderAndSingleSave ==
    mode = "main" =>
        /\ processed = [i \in 1 .. Len(processed) |-> i]
        /\ Len(processed) <= Len(summaries) + 1
        /\ Len(saves) <= 1
        /\ main_pc = "done" <=> Len(saves) = 1
        /\ Len(saves) = 1 => index_written /\ saves[1] = data /\ cache_file = data
        /\ index_written => Len(summaries) = fit_paths /\ reports = 1 .. fit_paths
        /\ exc # <<>> => main_pc = "raised"
        /\ \A a \in 1 .. fit_paths :
              (main_pc = "raised" /\ exc[1].activity = a) =>
                  /\ idx = a
                  /\ Len(processed) <= a
                  /\ ~index_written
                  /\ saves = <<>>
                  /\ reports = 1 .. (a - 1)
                  /\ Len(summaries) = a - 1

\* the second of three activities fails: the first report is there, the
\* cache holds an entry the cache file has not
C10_Witness ==
    /\ mode = "main"
    /\ main_pc = "raised"
    /\ fit_paths = 3
    /\ FailedInProcess(2)
    /\ reports = {1}
    /\ data # cache_file
    /\ saves = <<>>

====
